---- MODULE Spec2Model ----
(***************************************************************************)
(* Model of src/main.py: the wallet interrupted-transaction and Sybil      *)
(* checker.  One run of main(): read the wallet list, fetch each wallet's  *)
(* ledger, normalise / classify / aggregate every transaction, build the   *)
(* Sybil table, save the reports.                                          *)
(*                                                                         *)
(* Python values are modelled as follows.                                  *)
(*   str    [tag |-> "str", s |-> <<c1, ..., cn>>]  (one-character strings) *)
(*   None   [tag |-> "None"]                                               *)
(*   list   [tag |-> "list", items |-> <<...>>]                            *)
(*   dict   a record without a "tag" field; a key the dict lacks is a      *)
(*          field the record lacks                                         *)
(* Strings that are always str in the code (wallets, dictionary keys) are  *)
(* kept as bare character sequences.                                       *)
(***************************************************************************)
EXTENDS Integers, Sequences, FiniteSets, TLC

VARIABLES
    args,           \* parsed command line: wallet file lines, api key, threshold
    remote,         \* what the block explorer answers for each queried address
    pc,             \* position of main(): "main", "fetch", "iter", "sybil", "save", "done", "exit", "crashed"
    wallets,        \* main.wallets: the list read_wallets returned
    wi,             \* index in wallets of the wallet the for loop is at
    txs,            \* the not yet iterated rest of the current wallet's txs
    interrupted,    \* defaultdict(list): wallet -> interrupted tx records
    counterparties, \* defaultdict(set): counterparty -> set of wallets
    all_txs,        \* list of every tx record
    sybil,          \* the rows of the DataFrame build_sybil_table returned
    reports,        \* what save_reports wrote
    fetch_log,      \* addresses requested from the block explorer, in order
    error           \* name of the uncaught exception that ended the run, or ""

vars == <<args, remote, pc, wallets, wi, txs, interrupted, counterparties,
          all_txs, sybil, reports, fetch_log, error>>

----------------------------------------------------------------------------
(* Bounds of the model *)

MaxWallets == 2
MaxTxs == 2

----------------------------------------------------------------------------
(* Python values *)

None == [tag |-> "None"]
Str(s) == [tag |-> "str", s |-> s]
List(items) == [tag |-> "list", items |-> items]

IsTagged(v, t) == "tag" \in DOMAIN v /\ v.tag = t
IsStr(v) == IsTagged(v, "str")
IsList(v) == IsTagged(v, "list")
IsDict(v) == "tag" \notin DOMAIN v

\* bool(v) for the values the program tests: None and "" are falsy
Truthy(v) == IF IsStr(v) THEN v.s # <<>> ELSE FALSE

\* d.get(k, default)
DictGet(d, k, default) == IF k \in DOMAIN d THEN d[k] ELSE default

\* An insertion-ordered dict: the keys in insertion order and their values
EmptyDict == [keys |-> <<>>, val |-> <<>>]
Keys(d) == {d.keys[i] : i \in DOMAIN d.keys}
DictPut(d, k, v) ==
    IF k \in Keys(d)
    THEN [d EXCEPT !.val = [x \in Keys(d) |-> IF x = k THEN v ELSE d.val[x]]]
    ELSE [keys |-> Append(d.keys, k),
          val |-> [x \in Keys(d) \cup {k} |-> IF x = k THEN v ELSE d.val[x]]]

Range(s) == {s[i] : i \in DOMAIN s}

\* F(v), with v evaluated once (LET x == v IN F(x) for the model checker)
With(v, F(_)) == CHOOSE r \in {F(x) : x \in {v}} : TRUE

----------------------------------------------------------------------------
(* Characters: the ASCII characters the model uses, in code point order *)

Alphabet ==
    <<" ", "#", "+", ",", "-",
      "0", "1", "2", "3", "4", "5", "6", "7", "8", "9",
      "A", "B", "C", "D", "E", "F", "G", "H", "I", "J", "K", "L", "M",
      "N", "O", "P", "Q", "R", "S", "T", "U", "V", "W", "X", "Y", "Z",
      "a", "b", "c", "d", "e", "f", "g", "h", "i", "j", "k", "l", "m",
      "n", "o", "p", "q", "r", "s", "t", "u", "v", "w", "x", "y", "z">>

\* ord(c), as the position in Alphabet
OrdTable == [c \in Range(Alphabet) |-> CHOOSE i \in DOMAIN Alphabet : Alphabet[i] = c]
Ord(c) == OrdTable[c]
IsUpper(c) == Ord(c) >= Ord("A") /\ Ord(c) <= Ord("Z")
IsDigit(c) == Ord(c) >= Ord("0") /\ Ord(c) <= Ord("9")
IsSpace(c) == c = " "

\* str.lower(), character by character
LowerTable ==
    [c \in Range(Alphabet) |->
        IF IsUpper(c) THEN Alphabet[Ord(c) + (Ord("a") - Ord("A"))] ELSE c]
LowerChar(c) == LowerTable[c]
Lower(s) == [i \in DOMAIN s |-> LowerChar(s[i])]

\* str.startswith(prefix)
StartsWith(s, prefix) ==
    Len(s) >= Len(prefix) /\ SubSeq(s, 1, Len(prefix)) = prefix

\* str.strip()
RECURSIVE LStrip(_)
LStrip(s) == IF s # <<>> /\ IsSpace(Head(s)) THEN LStrip(Tail(s)) ELSE s
RECURSIVE RStrip(_)
RStrip(s) ==
    IF s # <<>> /\ IsSpace(s[Len(s)]) THEN RStrip(SubSeq(s, 1, Len(s) - 1)) ELSE s
Strip(s) == RStrip(LStrip(s))

\* a < b on str: code point order, a proper prefix first
LexLess(a, b) ==
    \E i \in 1..(Len(a) + 1) :
        /\ i <= Len(b)
        /\ \A j \in 1..(i - 1) : a[j] = b[j]
        /\ (i > Len(a) \/ Ord(a[i]) < Ord(b[i]))

\* sorted(set of str)
Sorted(S) ==
    CHOOSE q \in [1..Cardinality(S) -> S] :
        /\ \A i, j \in DOMAIN q : i < j => LexLess(q[i], q[j])

\* sep.join(list of str)
RECURSIVE Join(_, _)
Join(sep, q) ==
    IF q = <<>> THEN <<>>
    ELSE IF Len(q) = 1 THEN q[1]
    ELSE q[1] \o sep \o Join(sep, Tail(q))

\* int(v): [ok |-> TRUE, n |-> value], or the exception int raises
RECURSIVE DigitsValue(_)
DigitsValue(ds) ==
    IF ds = <<>> THEN 0
    ELSE 10 * DigitsValue(SubSeq(ds, 1, Len(ds) - 1)) + (Ord(ds[Len(ds)]) - Ord("0"))

ParseInt(v) ==
    IF ~IsStr(v) THEN [ok |-> FALSE, exc |-> "TypeError"]
    ELSE
        LET t == Strip(v.s)
            signed == t # <<>> /\ t[1] \in {"+", "-"}
            ds == IF signed THEN Tail(t) ELSE t
        IN  IF ds = <<>> \/ \E i \in DOMAIN ds : ~IsDigit(ds[i])
            THEN [ok |-> FALSE, exc |-> "ValueError"]
            ELSE [ok |-> TRUE,
                  n |-> IF signed /\ t[1] = "-" THEN 0 - DigitsValue(ds)
                        ELSE DigitsValue(ds)]

----------------------------------------------------------------------------
(* read_wallets *)

\* the lines of the file that line 31 keeps, stripped
RECURSIVE KeptLines(_)
KeptLines(lines) ==
    IF lines = <<>> THEN <<>>
    ELSE IF Strip(Head(lines)) # <<>> /\ ~StartsWith(Head(lines), <<"#">>)
         THEN <<Strip(Head(lines))>> \o KeptLines(Tail(lines))
         ELSE KeptLines(Tail(lines))

\* line 33: "basic normalization", the 0x prefix
Prefixed(a) == IF StartsWith(a, <<"0", "x">>) THEN a ELSE <<"0", "x">> \o a

read_wallets(lines) ==
    LET addrs == KeptLines(lines)
    IN  [i \in DOMAIN addrs |-> Prefixed(addrs[i])]

----------------------------------------------------------------------------
(* fetch_txs_etherscan *)

Raise(exc) == [raised |-> exc]
Return(v) == [raised |-> "", value |-> v]

NoTransactions ==
    <<"n", "o", " ", "t", "r", "a", "n", "s", "a", "c", "t", "i", "o", "n", "s">>

\* reply: what requests.get gives for the address: [http |-> "ok", data |-> dict]
\* or [http |-> "error"] (a transport failure, a bad HTTP status, a body that is
\* not JSON: requests.get, raise_for_status or resp.json raises)
fetch_txs_etherscan(reply) ==
    IF reply.http # "ok" THEN Raise("RequestException")
    ELSE
        LET data == reply.data
            status == DictGet(data, "status", None)
            message == DictGet(data, "message", Str(<<>>))
        IN  IF status = Str(<<"0">>) /\ ~IsStr(message)
            THEN Raise("AttributeError")
            ELSE IF status = Str(<<"0">>) /\ StartsWith(Lower(message.s), NoTransactions)
            THEN Return(List(<<>>))
            ELSE IF status \notin {Str(<<"0">>), Str(<<"1">>)}
            THEN Raise("RuntimeError")
            ELSE Return(DictGet(data, "result", List(<<>>)))

\* lines 63-67: the try / except around the fetch
FetchedTxs(reply) ==
    With(fetch_txs_etherscan(reply), LAMBDA r :
        IF r.raised # "" THEN List(<<>>) ELSE r.value)

\* "for tx in txs": the items the loop visits, or the exception iter() raises
Iterate(v) ==
    IF IsList(v) THEN [ok |-> TRUE, items |-> v.items]
    ELSE IF IsStr(v) THEN [ok |-> TRUE, items |-> [i \in DOMAIN v.s |-> Str(<<v.s[i]>>)]]
    ELSE [ok |-> FALSE, exc |-> "TypeError"]

----------------------------------------------------------------------------
(* analyze_wallets: the body of the loop over one wallet's txs *)

WeiDecimals == 18

\* lines 71-83; exc is the exception the construction raises, "" when none
TxRecord(w, tx) ==
    IF ~IsDict(tx) THEN [exc |-> "AttributeError"]
    ELSE
        With(ParseInt(DictGet(tx, "value", Str(<<"0">>))), LAMBDA v :
            IF ~v.ok THEN [exc |-> v.exc]
            ELSE [exc |-> "",
                  rec |-> [wallet |-> w,
                           hash |-> DictGet(tx, "hash", None),
                           from |-> DictGet(tx, "from", None),
                           to |-> DictGet(tx, "to", None),
                           value |-> [int |-> v.n, over10pow |-> WeiDecimals],
                           gas |-> DictGet(tx, "gas", None),
                           gasPrice |-> DictGet(tx, "gasPrice", None),
                           isError |-> DictGet(tx, "isError", None),
                           txreceipt_status |-> DictGet(tx, "txreceipt_status", None),
                           blockNumber |-> DictGet(tx, "blockNumber", None),
                           timeStamp |-> DictGet(tx, "timeStamp", None)]])

\* line 88 with and for or
IsInterruptedBoth(rec) ==
    rec.isError = Str(<<"1">>) /\ rec.txreceipt_status = Str(<<"0">>)

\* line 88
IsInterrupted(rec) ==
    rec.isError = Str(<<"1">>) \/ rec.txreceipt_status = Str(<<"0">>)

\* line 89 inserting at the front: interrupted[w].insert(0, tx_record)
PrependInterrupted(d, w, rec) ==
    DictPut(d, w, <<rec>> \o DictGet(d.val, w, <<>>))

\* line 89: interrupted[w].append(tx_record)
AppendInterrupted(d, w, rec) ==
    DictPut(d, w, Append(DictGet(d.val, w, <<>>), rec))

\* line 93 without lowering the two sides: cp and cp != w
IsCounterpartyCaseSensitive(cp, w) == Truthy(cp) /\ cp.s # w

\* line 93
IsCounterparty(cp, w) == Truthy(cp) /\ Lower(cp.s) # Lower(w)

\* line 94 as an assignment instead of an add: counterparties[cp.lower()] = {w.lower()}
AddWalletOverwrite(d, key, w) == DictPut(d, key, {Lower(w)})

\* line 94 adding the wallet as given: counterparties[cp.lower()].add(w)
AddWalletAsGiven(d, key, w) == DictPut(d, key, DictGet(d.val, key, {}) \cup {w})

\* line 94: counterparties[cp.lower()].add(w.lower())
AddWallet(d, key, w) ==
    DictPut(d, key, DictGet(d.val, key, {}) \cup {Lower(w)})

\* lines 92-94, for one cp
AddCounterparty(d, cp, w) ==
    IF IsCounterparty(cp, w) THEN AddWallet(d, Lower(cp.s), w) ELSE d

\* the results of analyze_wallets so far
NoResults ==
    [interrupted |-> EmptyDict, counterparties |-> EmptyDict, all_txs |-> <<>>,
     error |-> ""]

\* lines 70-94: one iteration of the loop over txs
ProcessTx(st, w, tx) ==
    With(TxRecord(w, tx), LAMBDA r :
        IF r.exc # "" THEN [st EXCEPT !.error = r.exc]
        ELSE [interrupted |->
                  IF IsInterrupted(r.rec)
                  THEN AppendInterrupted(st.interrupted, w, r.rec)
                  ELSE st.interrupted,
              counterparties |->
                  With(AddCounterparty(st.counterparties, r.rec.from, w), LAMBDA d :
                      AddCounterparty(d, r.rec.to, w)),
              all_txs |-> Append(st.all_txs, r.rec),
              error |-> ""])

\* lines 69-94: the loop over the txs of one wallet, stopping at an exception
RECURSIVE ProcessTxs(_, _, _)
ProcessTxs(st, w, items) ==
    IF items = <<>> \/ st.error # "" THEN st
    ELSE With(ProcessTx(st, w, Head(items)), LAMBDA next :
             ProcessTxs(next, w, Tail(items)))

\* lines 62-94: the loop over the wallets
RECURSIVE ProcessWallets(_, _, _)
ProcessWallets(st, ws, rem) ==
    IF ws = <<>> \/ st.error # "" THEN st
    ELSE
        With(Iterate(FetchedTxs(rem[Head(ws)])), LAMBDA it :
            IF ~it.ok THEN [st EXCEPT !.error = it.exc]
            ELSE With(ProcessTxs(st, Head(ws), it.items), LAMBDA next :
                     ProcessWallets(next, Tail(ws), rem)))

\* lines 57-95
analyze_wallets(ws, rem) == ProcessWallets(NoResults, ws, rem)

----------------------------------------------------------------------------
(* build_sybil_table *)

\* line 101
SybilRow(addr, ws) ==
    [address |-> addr, wallet_count |-> Cardinality(ws),
     wallets |-> Join(<<",">>, Sorted(ws))]

\* line 100 with > for >=
MeetsThresholdStrict(ws, threshold) == Cardinality(ws) > threshold

\* line 100
MeetsThreshold(ws, threshold) == Cardinality(ws) >= threshold

\* lines 98-101: the rows, in the insertion order of the dict
RECURSIVE SybilRows(_, _, _)
SybilRows(keys, val, threshold) ==
    IF keys = <<>> THEN <<>>
    ELSE (IF MeetsThreshold(val[Head(keys)], threshold)
          THEN <<SybilRow(Head(keys), val[Head(keys)])>>
          ELSE <<>>) \o SybilRows(Tail(keys), val, threshold)

\* line 103 with ascending=True
InSortOrderAscending(a, b) == a.wallet_count <= b.wallet_count

\* the order sort_values(by="wallet_count", ascending=False) asks for
InSortOrder(a, b) == a.wallet_count >= b.wallet_count

\* line 103: sort_values with its default kind, quicksort, is not a stable sort:
\* every arrangement of the rows in which wallet_count never rises is an outcome
SortValues(rows) ==
    LET n == Len(rows)
        perms == {p \in [1..n -> 1..n] : \A i, j \in 1..n : i # j => p[i] # p[j]}
    IN  {[i \in 1..n |-> rows[p[i]]] : p \in
            {q \in perms : \A i \in 1..(n - 1) : InSortOrder(rows[q[i]], rows[q[i + 1]])}}

\* lines 97-106: the DataFrames the call can return, each as its sequence of rows
build_sybil_table(cps, threshold) ==
    LET rows == SybilRows(cps.keys, cps.val, threshold)
    IN  IF rows # <<>> THEN SortValues(rows) ELSE {<<>>}

----------------------------------------------------------------------------
(* save_reports *)

\* lines 114-124
InterruptedRow(w, tx) ==
    [wallet |-> w, hash |-> tx.hash, from |-> tx.from, to |-> tx.to,
     value_eth |-> tx.value, isError |-> tx.isError,
     txreceipt_status |-> tx.txreceipt_status, blockNumber |-> tx.blockNumber,
     timeStamp |-> tx.timeStamp]

\* lines 111-124
RECURSIVE InterruptedRows(_, _)
InterruptedRows(keys, val) ==
    IF keys = <<>> THEN <<>>
    ELSE [i \in DOMAIN val[Head(keys)] |-> InterruptedRow(Head(keys), val[Head(keys)][i])]
         \o InterruptedRows(Tail(keys), val)

NoReports == [saved |-> FALSE]

\* lines 108-129: the three files
save_reports(int, sybil_df, all_txs_df) ==
    [saved |-> TRUE,
     interrupted_transactions |-> InterruptedRows(int.keys, int.val),
     potential_sybil_addresses |-> sybil_df,
     all_txs |-> all_txs_df]

----------------------------------------------------------------------------
(* main *)

\* line 138: args.apikey or os.environ.get("ETHERSCAN_API_KEY")
ApiKey(a) == IF Truthy(a.apikey) THEN a.apikey ELSE a.env_apikey

\* lines 138-148: the api key, the wallet list
MainLoad ==
    /\ pc = "main"
    /\ IF ~Truthy(ApiKey(args))
       THEN /\ pc' = "exit"
            /\ UNCHANGED wallets
       ELSE /\ wallets' = read_wallets(args.wallets)
            /\ pc' = IF wallets' = <<>> THEN "exit" ELSE "fetch"
    /\ wi' = 1
    /\ UNCHANGED <<args, remote, txs, interrupted, counterparties, all_txs, sybil,
                   reports, fetch_log, error>>

\* lines 62-69: the fetch for the wallet the loop is at
FetchWallet ==
    /\ pc = "fetch"
    /\ \E w \in {wallets[wi]} : \E it \in {Iterate(FetchedTxs(remote[w]))} :
           /\ fetch_log' = Append(fetch_log, w)
           /\ IF it.ok
              THEN /\ txs' = it.items
                   /\ pc' = "iter"
                   /\ UNCHANGED error
              ELSE /\ error' = it.exc
                   /\ pc' = "crashed"
                   /\ UNCHANGED txs
    /\ UNCHANGED <<args, remote, wallets, wi, interrupted, counterparties, all_txs,
                   sybil, reports>>

\* lines 69-94: one iteration of the loop over txs
ProcessNextTx ==
    /\ pc = "iter"
    /\ txs # <<>>
    /\ \E st \in {ProcessTx([interrupted |-> interrupted,
                            counterparties |-> counterparties,
                            all_txs |-> all_txs, error |-> ""],
                           wallets[wi], Head(txs))} :
           /\ interrupted' = st.interrupted
           /\ counterparties' = st.counterparties
           /\ all_txs' = st.all_txs
           /\ error' = st.error
           /\ pc' = IF st.error # "" THEN "crashed" ELSE "iter"
    /\ txs' = Tail(txs)
    /\ UNCHANGED <<args, remote, wallets, wi, sybil, reports, fetch_log>>

\* line 62: the loop over txs is over; the next wallet, or line 95
NextWallet ==
    /\ pc = "iter"
    /\ txs = <<>>
    /\ wi' = wi + 1
    /\ pc' = IF wi < Len(wallets) THEN "fetch" ELSE "sybil"
    /\ UNCHANGED <<args, remote, wallets, txs, interrupted, counterparties, all_txs,
                   sybil, reports, fetch_log, error>>

\* line 158
BuildSybil ==
    /\ pc = "sybil"
    /\ sybil' \in build_sybil_table(counterparties, args.sybil_threshold)
    /\ pc' = "save"
    /\ UNCHANGED <<args, remote, wallets, wi, txs, interrupted, counterparties,
                   all_txs, reports, fetch_log, error>>

\* line 165
SaveReports ==
    /\ pc = "save"
    /\ reports' = save_reports(interrupted, sybil, all_txs)
    /\ pc' = "done"
    /\ UNCHANGED <<args, remote, wallets, wi, txs, interrupted, counterparties,
                   all_txs, sybil, fetch_log, error>>

Next ==
    \/ MainLoad
    \/ FetchWallet
    \/ ProcessNextTx
    \/ NextWallet
    \/ BuildSybil
    \/ SaveReports

----------------------------------------------------------------------------
(* Inputs *)

\* the sequences over S of length lo..hi
SeqsOf(S, lo, hi) == UNION {[1..n -> S] : n \in lo..hi}

\* the state main() starts in, for a command line and a block explorer
InitWith(ArgSet, Replies) ==
    /\ args \in ArgSet
    /\ remote \in [Range(read_wallets(args.wallets)) -> Replies]
    /\ pc = "main"
    /\ wallets = <<>>
    /\ wi = 1
    /\ txs = <<>>
    /\ interrupted = EmptyDict
    /\ counterparties = EmptyDict
    /\ all_txs = <<>>
    /\ sybil = <<>>
    /\ reports = NoReports
    /\ fetch_log = <<>>
    /\ error = ""

\* addresses
Addr0xAAA == <<"0", "x", "A", "A", "A">>
Addr0xaaa == <<"0", "x", "a", "a", "a">>
Addr0xBBB == <<"0", "x", "B", "B", "B">>
Addr0xbbb == <<"0", "x", "b", "b", "b">>
Addr0xCCC == <<"0", "x", "C", "C", "C">>
Addr0xccc == <<"0", "x", "c", "c", "c">>
Addr0xddd == <<"0", "x", "d", "d", "d">>

\* a raw record of the txlist result with every field the program reads but the
\* passed-through gas, gasPrice, blockNumber and timeStamp
RawTx(hash, from, to, value, isError, status) ==
    [hash |-> Str(<<hash>>), from |-> from, to |-> to, value |-> value,
     isError |-> isError, txreceipt_status |-> status]

\* the dict d without the keys ks
Without(d, ks) == [k \in (DOMAIN d) \ ks |-> d[k]]

\* replies of the block explorer
MsgOK == <<"O", "K">>
MsgNoTransactionsFound ==
    <<"N", "o", " ", "t", "r", "a", "n", "s", "a", "c", "t", "i", "o", "n", "s",
      " ", "f", "o", "u", "n", "d">>
MsgNOTOK == <<"N", "O", "T", "O", "K">>

Reply(status, message, result) ==
    [http |-> "ok", data |-> [status |-> status, message |-> message, result |-> result]]
TxListReply(items) == Reply(Str(<<"1">>), Str(MsgOK), List(items))
NoTransactionsReply == Reply(Str(<<"0">>), Str(MsgNoTransactionsFound), List(<<>>))
TransportFailure == [http |-> "error"]

\* every reply that lists 1..MaxTxs records of Pool, and the "no transactions" reply
LedgerReplies(Pool) ==
    {TxListReply(q) : q \in SeqsOf(Pool, 1, MaxTxs)} \cup {NoTransactionsReply}

\* command lines: a wallet file of at most MaxWallets lines of Lines, a threshold
\* of Thresholds, the api key given with --apikey
ArgsOf(Lines, Thresholds) ==
    [wallets : SeqsOf(Lines, 0, MaxWallets), apikey : {Str(<<"k">>)},
     env_apikey : {None}, sybil_threshold : Thresholds]

\* a command line without --apikey, with or without ETHERSCAN_API_KEY
ArgsNoKey(Lines) ==
    [wallets : SeqsOf(Lines, 1, 1), apikey : {None, Str(<<>>)},
     env_apikey : {None, Str(<<"k">>)}, sybil_threshold : {2}]

\* wallet files with padded, unprefixed, comment and blank lines
ArgsOddLines ==
    [wallets : SeqsOf({<<" ", "a", "a", "a", " ">>, <<"#", "x">>, <<" ">>}, 1, 2),
     apikey : {None}, env_apikey : {Str(<<"k">>)}, sybil_threshold : {2}]

----------------------------------------------------------------------------
(* Spec: runs over wallets that transact with each other and with a shared  *)
(* counterparty                                                             *)

WalletLines == {Addr0xAAA, <<"B", "B", "B">>}

AggTxs ==
    {RawTx("1", Str(Addr0xAAA), Str(Addr0xCCC), Str(<<"0">>), Str(<<"1">>), Str(<<>>)),
     RawTx("2", Str(Addr0xCCC), Str(Addr0xBBB), Str(<<"0">>), Str(<<"0">>), Str(<<"1">>)),
     RawTx("3", Str(Addr0xaaa), Str(Addr0xAAA), Str(<<"5">>), Str(<<"0">>), Str(<<"0">>))}

Init ==
    InitWith(ArgsOf(WalletLines, {2}) \cup ArgsNoKey(WalletLines) \cup ArgsOddLines,
             LedgerReplies(AggTxs))

Spec == Init /\ [][Next]_vars

----------------------------------------------------------------------------
(* SpecSelf: runs over records between a wallet and itself, and records     *)
(* without a sender or a receiver                                           *)

SelfTxs ==
    {RawTx("1", Str(Addr0xaaa), Str(Addr0xAAA), Str(<<"0">>), Str(<<"0">>), Str(<<"1">>)),
     Without(RawTx("2", None, Str(<<>>), Str(<<"0">>), Str(<<"0">>), Str(<<"1">>)), {"from"}),
     RawTx("3", Str(Addr0xBBB), None, Str(<<"0">>), Str(<<"0">>), Str(<<"1">>)),
     RawTx("4", Str(Addr0xAAA), Str(Addr0xCCC), Str(<<"0">>), Str(<<"0">>), Str(<<"1">>))}

InitSelf ==
    InitWith(ArgsOf(WalletLines, {2}) \cup ArgsNoKey(WalletLines), LedgerReplies(SelfTxs))

SpecSelf == InitSelf /\ [][Next]_vars

----------------------------------------------------------------------------
(* SpecSybil: runs with every kind of threshold over wallets that share two *)
(* counterparties                                                           *)

SybilTxs ==
    {RawTx("1", Str(Addr0xccc), Str(Addr0xddd), Str(<<"0">>), Str(<<"0">>), Str(<<"1">>)),
     RawTx("2", Str(Addr0xAAA), Str(Addr0xccc), Str(<<"0">>), Str(<<"0">>), Str(<<"1">>)),
     RawTx("3", Str(Addr0xddd), Str(Addr0xBBB), Str(<<"0">>), Str(<<"0">>), Str(<<"1">>))}

SybilThresholds == {0 - 1, 0, 1, 2, 3}

InitSybil ==
    InitWith(ArgsOf(WalletLines, SybilThresholds) \cup ArgsNoKey(WalletLines),
             LedgerReplies(SybilTxs))

SpecSybil == InitSybil /\ [][Next]_vars

----------------------------------------------------------------------------
(* SpecClassify: runs over records with every combination of isError and    *)
(* txreceipt_status in {absent, "", "0", "1"}                               *)

\* stands for a key the record does not have
Absent == [tag |-> "absent"]
DropAbsent(d) == Without(d, {k \in DOMAIN d : d[k] = Absent})

FlagValues == {Absent, Str(<<>>), Str(<<"0">>), Str(<<"1">>)}

ClassifyTxs ==
    {DropAbsent(RawTx("1", Str(Addr0xAAA), Str(Addr0xCCC), Str(<<"0">>), e, r)) :
        e \in FlagValues, r \in FlagValues}

InitClassify ==
    InitWith(ArgsOf({Addr0xAAA}, {2}) \cup ArgsNoKey({Addr0xAAA}),
             LedgerReplies(ClassifyTxs))

SpecClassify == InitClassify /\ [][Next]_vars

----------------------------------------------------------------------------
(* SpecRaw: runs over malformed records and over every kind of reply of the *)
(* block explorer                                                           *)

\* records whose value is absent, null, empty, not a number, padded
MalformedTxs ==
    {Without(RawTx("1", Str(Addr0xAAA), Str(Addr0xCCC), None, Str(<<"1">>), None), {"value"}),
     RawTx("2", None, None, None, Str(<<"0">>), Str(<<"1">>)),
     RawTx("3", Str(Addr0xCCC), Str(Addr0xBBB), Str(<<>>), Str(<<"0">>), Str(<<"1">>)),
     RawTx("4", Str(Addr0xCCC), Str(Addr0xBBB), Str(<<"0", "x", "1">>), None, None),
     Without(RawTx("5", None, None, Str(<<" ", "7", " ">>), None, None),
             {"from", "to", "isError", "txreceipt_status"})}

MsgMaxRateLimitReached ==
    <<"M", "a", "x", " ", "r", "a", "t", "e", " ", "l", "i", "m", "i", "t", " ",
      "r", "e", "a", "c", "h", "e", "d">>

\* the replies with which a fetch fails: no reply, status "0" with an error
\* text for result, a status that is neither "0" nor "1", no status, status "0"
\* without a message text
FailureReplies ==
    {TransportFailure,
     Reply(Str(<<"0">>), Str(MsgNOTOK), Str(MsgMaxRateLimitReached)),
     Reply(Str(<<"2">>), Str(MsgNOTOK), List(<<>>)),
     [http |-> "ok", data |-> [result |-> List(<<>>)]],
     Reply(Str(<<"0">>), None, List(<<>>))}

RawReplies == LedgerReplies(MalformedTxs) \cup FailureReplies

InitRaw ==
    InitWith(ArgsOf(WalletLines, {2}) \cup ArgsNoKey(WalletLines), RawReplies)

SpecRaw == InitRaw /\ [][Next]_vars

----------------------------------------------------------------------------
(* Properties *)

\* analyze_wallets has returned
AnalysisDone == pc \in {"sybil", "save", "done"}

\* d[k] of a defaultdict(list), without inserting k
ListAt(d, k) == DictGet(d.val, k, <<>>)

\* the arrangements of the list q
Arrangements(q) == {[i \in DOMAIN q |-> q[p[i]]] : p \in Permutations(DOMAIN q)}

\* C1: analyze_wallets over any permutation of the wallet list, with the same
\* ledger for every wallet, ends with the same CounterpartyIndex as the run:
\* the same counterparty keys and, for each key, the same set of wallets.
C1_PermutationSameIndex ==
    AnalysisDone =>
        \A p \in Arrangements(wallets) :
            \E r \in {analyze_wallets(p, remote)} :
                /\ r.error = ""
                /\ Keys(r.counterparties) = Keys(counterparties)
                /\ \A k \in Keys(counterparties) :
                       r.counterparties.val[k] = counterparties.val[k]

\* C1 witness: two different wallets were analyzed, a counterparty is shared by
\* both, and the other order of the wallets inserts the keys in another order
C1_Witness ==
    /\ pc = "done"
    /\ Len(wallets) = 2
    /\ wallets[1] # wallets[2]
    /\ \E k \in Keys(counterparties) : Cardinality(counterparties.val[k]) = 2
    /\ analyze_wallets(<<wallets[2], wallets[1]>>, remote).counterparties.keys
           # counterparties.keys

\* the next iteration of the loop over txs is for a record whose from and to
\* are both the owning wallet, compared case-insensitively
AtSelfTx ==
    /\ pc = "iter"
    /\ txs # <<>>
    /\ IsDict(Head(txs))
    /\ \A f \in {"from", "to"} :
           /\ f \in DOMAIN Head(txs)
           /\ IsStr(Head(txs)[f])
           /\ Lower(Head(txs)[f].s) = Lower(wallets[wi])

\* C4: in every state of the aggregation no key of the CounterpartyIndex is
\* empty and no key is a member of its own associated-wallet set, and the
\* iteration for a transaction whose from and to both equal the owning wallet
\* (case-insensitively) leaves the index as it was.
C4_NoSelfNoEmptyKey ==
    [][/\ \A k \in Keys(counterparties') :
              k # <<>> /\ k \notin counterparties'.val[k]
       /\ AtSelfTx => counterparties' = counterparties]_vars

\* C4 witness: a record whose from and to are the owning wallet in another
\* letter case has been processed and the index has no key for the wallet,
\* while another record of the same wallet has given the index a key
C4_Witness ==
    /\ pc = "iter"
    /\ Keys(counterparties) # {}
    /\ \E i \in DOMAIN all_txs :
           /\ IsStr(all_txs[i].from) /\ IsStr(all_txs[i].to)
           /\ all_txs[i].from.s # all_txs[i].wallet
           /\ Lower(all_txs[i].from.s) = Lower(all_txs[i].wallet)
           /\ Lower(all_txs[i].to.s) = Lower(all_txs[i].wallet)
           /\ Lower(all_txs[i].wallet) \notin Keys(counterparties)

\* the end-to-end scenario: wallets ["0xAAA", "0xBBB"], one transaction each,
\* threshold 2, run to its end
ScenarioTxA ==
    RawTx("1", Str(Addr0xAAA), Str(Addr0xCCC), Str(<<"0">>), Str(<<"1">>), Str(<<>>))
ScenarioTxB ==
    RawTx("2", Str(Addr0xCCC), Str(Addr0xBBB), Str(<<"0">>), Str(<<"0">>), Str(<<"1">>))
ScenarioRun ==
    /\ pc = "done"
    /\ wallets = <<Addr0xAAA, Addr0xBBB>>
    /\ remote[Addr0xAAA] = TxListReply(<<ScenarioTxA>>)
    /\ remote[Addr0xBBB] = TxListReply(<<ScenarioTxB>>)
    /\ args.sybil_threshold = 2

\* what the scenario expects of the index and of the Sybil output
ScenarioIndexAndSybil ==
    /\ Addr0xccc \in Keys(counterparties)
    /\ counterparties.val[Addr0xccc] = {Addr0xaaa, Addr0xbbb}
    /\ Len(sybil) = 1
    /\ sybil[1].address = Addr0xccc
    /\ sybil[1].wallet_count = 2

Hashes(rows) == [i \in DOMAIN rows |-> rows[i].hash]

\* the ledger the block explorer lists for w (every reply of Spec is a list)
Ledger(w) == remote[w].data.result.items

\* the records fetched for w over the whole run: w's ledger, once for every
\* time w stands in the wallet list
RECURSIVE FetchedFor(_, _)
FetchedFor(w, ws) ==
    IF ws = <<>> THEN <<>>
    ELSE (IF Head(ws) = w THEN Ledger(w) ELSE <<>>) \o FetchedFor(w, Tail(ws))

\* the classification of a raw record
RawInterrupted(tx) ==
    \/ ("isError" \in DOMAIN tx /\ tx.isError = Str(<<"1">>))
    \/ ("txreceipt_status" \in DOMAIN tx /\ tx.txreceipt_status = Str(<<"0">>))

\* C10: when analyze_wallets has finished, interrupted[w] is, for every wallet
\* w, the interrupted ones among the records fetched for w, in fetch order,
\* none dropped, duplicated or reordered; a wallet without an interrupted
\* transaction has no entry; every entry is a row of all_txs.
C10_InterruptedInFetchOrder ==
    AnalysisDone =>
        /\ \A w \in Range(wallets) :
               /\ Hashes(ListAt(interrupted, w))
                      = Hashes(SelectSeq(FetchedFor(w, wallets), RawInterrupted))
               /\ \A i \in DOMAIN ListAt(interrupted, w) :
                      /\ ListAt(interrupted, w)[i].wallet = w
                      /\ ListAt(interrupted, w)[i] \in Range(all_txs)
        /\ Keys(interrupted) \subseteq Range(wallets)
        /\ \A k \in Keys(interrupted) : interrupted.val[k] # <<>>

\* C10 witness: a wallet has two different interrupted entries, and another
\* wallet, whose fetched records are not interrupted, has no entry
C10_Witness ==
    /\ pc = "done"
    /\ \E w \in Range(wallets) :
           /\ Len(ListAt(interrupted, w)) = 2
           /\ interrupted.val[w][1] # interrupted.val[w][2]
    /\ \E w \in Range(wallets) : w \notin Keys(interrupted) /\ Ledger(w) # <<>>

\* build_sybil_table has returned
SybilBuilt == pc \in {"save", "done"}

\* the addresses of the candidates
Candidates == {sybil[i].address : i \in DOMAIN sybil}

\* C3: for a threshold >= 1, build_sybil_table emits a candidate for address C
\* if and only if the number of wallets associated with C is >= threshold; a
\* counterparty with threshold - 1 wallets is excluded, one with threshold
\* wallets is included, and a candidate's wallet_count is the size of C's set.
C3_CandidateIffThreshold ==
    (SybilBuilt /\ args.sybil_threshold >= 1) =>
        /\ \A k \in Keys(counterparties) :
               k \in Candidates
                   <=> Cardinality(counterparties.val[k]) >= args.sybil_threshold
        /\ \A i \in DOMAIN sybil :
               /\ sybil[i].address \in Keys(counterparties)
               /\ sybil[i].wallet_count
                      = Cardinality(counterparties.val[sybil[i].address])
               /\ \A j \in DOMAIN sybil : sybil[j].address = sybil[i].address => j = i

\* C3 witness: a counterparty with exactly threshold - 1 wallets is left out and
\* one with exactly threshold wallets is a candidate
C3_Witness ==
    /\ pc = "done"
    /\ args.sybil_threshold >= 1
    /\ \E k \in Keys(counterparties) :
           /\ Cardinality(counterparties.val[k]) = args.sybil_threshold - 1
           /\ k \notin Candidates
    /\ \E k \in Keys(counterparties) :
           /\ Cardinality(counterparties.val[k]) = args.sybil_threshold
           /\ k \in Candidates

\* C6 as stated: a run with a threshold of 0 or less aborts before any wallet
\* fetch, and the Sybil selector returns no candidate sequence for it.
C6_InvalidThresholdAborts ==
    args.sybil_threshold < 1 => (fetch_log = <<>> /\ ~SybilBuilt)

\* C8 as stated: the candidates are in descending order of wallet_count and,
\* among equal wallet_count, in ascending lexicographic order of the address.
C8_TotalOrder ==
    (SybilBuilt /\ args.sybil_threshold >= 1) =>
        \A i, j \in DOMAIN sybil :
            i < j =>
                \/ sybil[i].wallet_count > sybil[j].wallet_count
                \/ /\ sybil[i].wallet_count = sybil[j].wallet_count
                   /\ LexLess(sybil[i].address, sybil[j].address)

\* the candidates the index has for the threshold, whatever their order
ExpectedCandidates ==
    {SybilRow(k, counterparties.val[k]) :
        k \in {x \in Keys(counterparties) :
                  Cardinality(counterparties.val[x]) >= args.sybil_threshold}}

\* C8 amended: the candidates are in descending order of wallet_count; the
\* order among candidates of equal wallet_count is not fixed, and what is the
\* same for every insertion order of the index is the set of candidates, each
\* listed once.
C8_DescendingByCount ==
    SybilBuilt =>
        /\ \A i, j \in DOMAIN sybil :
               i < j => sybil[i].wallet_count >= sybil[j].wallet_count
        /\ Range(sybil) = ExpectedCandidates
        /\ Len(sybil) = Cardinality(ExpectedCandidates)

\* C8 witness: candidates of different wallet_count, and two of equal
\* wallet_count that are not in the order of their addresses
C8_Witness ==
    /\ pc = "done"
    /\ \E i, j \in DOMAIN sybil :
           i < j /\ sybil[i].wallet_count > sybil[j].wallet_count
    /\ \E i, j \in DOMAIN sybil :
           /\ i < j
           /\ sybil[i].wallet_count = sybil[j].wallet_count
           /\ LexLess(sybil[j].address, sybil[i].address)

\* every record fetched over the run, in fetch order (every reply a list)
RECURSIVE FetchedAll(_)
FetchedAll(ws) == IF ws = <<>> THEN <<>> ELSE Ledger(Head(ws)) \o FetchedAll(Tail(ws))

\* the field of a raw record, Absent when the record lacks it
RawField(tx, k) == IF k \in DOMAIN tx THEN tx[k] ELSE Absent

\* the combinations of isError and txreceipt_status that are interrupted
InterruptedCombinations ==
    {<<Str(<<"1">>), r>> : r \in FlagValues} \cup {<<e, Str(<<"0">>)>> : e \in FlagValues}

\* C2: over all combinations of isError and txreceipt_status in
\* {absent, "", "0", "1"}, a transaction is classified interrupted (it is in
\* its wallet's interrupted list) if and only if isError is "1" or
\* txreceipt_status is "0".
C2_InterruptedIff ==
    \A i \in DOMAIN all_txs :
        all_txs[i] \in Range(ListAt(interrupted, all_txs[i].wallet))
            <=> <<RawField(FetchedAll(wallets)[i], "isError"),
                  RawField(FetchedAll(wallets)[i], "txreceipt_status")>>
                    \in InterruptedCombinations

\* C2 witness: processed are a record with neither field, not interrupted,
\* and one with isError "1" and txreceipt_status "1", interrupted
C2_Witness ==
    /\ \E i \in DOMAIN all_txs :
           /\ DOMAIN FetchedAll(wallets)[i] \cap {"isError", "txreceipt_status"} = {}
           /\ all_txs[i] \notin Range(ListAt(interrupted, all_txs[i].wallet))
    /\ \E i \in DOMAIN all_txs :
           /\ all_txs[i].isError = Str(<<"1">>)
           /\ all_txs[i].txreceipt_status = Str(<<"1">>)
           /\ all_txs[i] \in Range(ListAt(interrupted, all_txs[i].wallet))

\* the fetch for the reply fails: it is neither a list of transactions with
\* status "1" nor the "no transactions" reply
FetchFails(reply) ==
    \/ reply.http # "ok"
    \/ /\ DictGet(reply.data, "status", None) # Str(<<"1">>)
       /\ ~(/\ DictGet(reply.data, "status", None) = Str(<<"0">>)
            /\ IsStr(DictGet(reply.data, "message", None))
            /\ StartsWith(Lower(DictGet(reply.data, "message", None).s), NoTransactions))

\* the block explorer with an empty ledger for every wallet whose fetch fails
FailuresEmptied ==
    [w \in DOMAIN remote |->
        IF FetchFails(remote[w]) THEN NoTransactionsReply ELSE remote[w]]

\* C5 as stated: whatever way the fetch of a wallet fails, the run does not
\* abort on that wallet, and the results of analyze_wallets are those of the
\* run in which every failing wallet's ledger is the empty sequence.
C5_FetchFailureNotFatal ==
    /\ pc = "crashed" => ~FetchFails(remote[wallets[wi]])
    /\ AnalysisDone =>
           \E r \in {analyze_wallets(wallets, FailuresEmptied)} :
               /\ r.all_txs = all_txs
               /\ r.interrupted = interrupted
               /\ r.counterparties = counterparties

\* the value of the raw record is missing or is not the text of an integer
ValueUnusable(tx) == "value" \notin DOMAIN tx \/ ~ParseInt(tx.value).ok

\* C7 as stated: the iteration for a raw record never raises, whatever fields
\* are absent, null, empty or unparseable: the record is appended, with value 0
\* when the raw value is missing or unparseable, and the loop goes on.
C7_NormalizeNeverRaises ==
    [][(pc = "iter" /\ txs # <<>> /\ IsDict(Head(txs))) =>
           /\ pc' = "iter"
           /\ error' = ""
           /\ Len(all_txs') = Len(all_txs) + 1
           /\ ValueUnusable(Head(txs)) => all_txs'[Len(all_txs')].value.int = 0]_vars

====
